---- MODULE Spec2Model ----
(***************************************************************************)
(* Model of pytcsii (src/pytcsii/pytcsii.py): the live TCSII controller    *)
(* class `tcsii` and the protocol-file builder `tcsii_protocol_generator`. *)
(*                                                                         *)
(* The two classes share no state.  A behaviour follows one instance: the  *)
(* initial state is the state right after one of the two constructors has  *)
(* run, and every later step is one complete method call on that instance. *)
(*                                                                         *)
(* Python strings are TLA+ strings (built with \o and ToString).  Python   *)
(* ints are integers.  The floats of the protocol generator are carried as *)
(* integers in thousandths (42.0 is 42000), which is exact for the '.3f'   *)
(* rendering on the inputs enumerated here.  An instance is a function     *)
(* from the names of the attributes that have been assigned to their       *)
(* values, so that reading an attribute which was never assigned is        *)
(* visible as "AttributeError".                                            *)
(***************************************************************************)
EXTENDS Integers, Sequences, FiniteSets, TLC

VARIABLES
    inst,       \* which class was instantiated: "tcsii" or "generator"
    dev,        \* tcsii instance: attribute name -> value (assigned ones only)
    port,       \* strings handed to self.port.write during the latest call
    n_steps,    \* tcsii_protocol_generator.n_steps
    protocol,   \* tcsii_protocol_generator.protocol (list of lines)
    file,       \* lines of <filename>.protocol.ini, <<>> while not written
    call,       \* the latest call: its name and arguments
    err,        \* exception that ended the latest call, "none" if it returned
    warned      \* warnings the latest call surfaced to its caller

vars == <<inst, dev, port, n_steps, protocol, file, call, err, warned>>

genVars  == <<n_steps, protocol, file>>
liveVars == <<dev, port, warned>>

(***************************************************************************)
(* Bounds and input sets                                                   *)
(***************************************************************************)
MaxSteps == 2      \* append calls are made while n_steps < MaxSteps

LiveBaselines   == {30, 25}          \* degrees C; 25 is outside [30,45]
LiveMaxTemps    == {50}
\* <<baseline, beep, trigger_in>> of the connects
LiveInits       == {<<30, FALSE, TRUE>>, <<30, TRUE, TRUE>>,
                    <<25, FALSE, FALSE>>}
LiveTargets     == {42}
LiveRiseRates   == {3}               \* degrees C per second
LiveReturnRates == {4}
Commands        == {"Oc", "Z010100"} \* strings handed to custom_command
LiveDurations   == {2000, 10000}     \* ms
DurModes        == {"fixed_stim", "fixed_plateau", "fixed_total", "bogus"}
\* <<target, rise_rate, return_rate, dur_ms, dur_mode, surfaces>> of the
\* set_stim calls; (231 - 30) / 25 * 1000 is 8039.999... in floating point
LiveStimInputs  ==
    (LiveTargets \X LiveRiseRates \X LiveReturnRates \X LiveDurations
         \X DurModes \X {<<"all", <<>>>>})
    \cup {<<42, 3, 4, 10000, "fixed_stim", <<"list", <<2, 4>>>>>>,
          <<231, 3, 25, 10000, "fixed_total", <<"all", <<>>>>>>,
          <<42, 0, 4, 10000, "fixed_stim", <<"all", <<>>>>>>,
          <<42, 3, 0, 10000, "fixed_stim", <<"all", <<>>>>>>}
Latencies       == {400}             \* ms taken by one 'E' exchange

GenTargets      == {42000}           \* thousandths of a degree C
GenBaselines    == {30000}
GenRiseRates    == {3000}
GenReturnRates  == {4000}
GenDurations    == {10000}           \* thousandths of a second
GenZones        == {<<2, 4>>}
GenModes        == {"fixed_plateau", "fixed_total", "fixed_stim", "bogus"}
\* <<target_temp, rise_rate, return_rate, duration_smmm, baseline, zones,
\* duration_mode>> of the add_stimulation calls; 2 s is below the return time
\* 12 / 4 s, and 10 +- 1 / 16 s lies halfway between two thousandths
GenStimInputs   ==
    (GenTargets \X GenRiseRates \X GenReturnRates \X GenDurations
         \X GenBaselines \X GenZones \X GenModes)
    \cup {<<42000, 3000, 4000, 2000, 30000, <<2, 4>>, "fixed_total">>,
          <<42000, 3000, 4000, 10000, 30000, <<1, 2, 3, 4, 5>>,
            "fixed_plateau">>,
          <<31000, 16000, 16000, 10000, 30000, <<2, 4>>, "fixed_plateau">>,
          <<31000, 16000, 16000, 10000, 30000, <<2, 4>>, "fixed_total">>,
          <<42000, 0, 4000, 10000, 30000, <<2, 4>>, "fixed_stim">>,
          <<42000, 3000, 0, 10000, 30000, <<2, 4>>, "fixed_plateau">>}
RecordTemps     == {1}
AdjustToSkin    == {0}
ConstTemps      == {35000}
ConstSpeeds     == {3000}
ConstDurations  == {2000}
Offsets         == {1}               \* offset_s, seconds
EncMs           == {0, 7, 42, 999, 1000, 99999, 100000}
EncTemps        == {0, 5, 42, 99, 100}
EncWidths       == {3, 4, 5}

\* arguments of generate_from_lists: a scalar or a Python list
Scalar(x) == [list |-> FALSE, v |-> x]
List(xs)  == [list |-> TRUE,  v |-> xs]

\* <<temp_list, duration_smmm, zones, rise_rate, return_rate, n_trials>> of
\* the generate_from_lists calls.  Scalar(z): one zone list for all trials,
\* Scalar(<<>>) is zones=[]; n_trials 0 stands for None as well
ListInputs    ==
    {<<Scalar(42000), Scalar(10000), Scalar(<<2, 4>>), Scalar(3000),
       Scalar(4000), 2>>,
     <<Scalar(42000), Scalar(10000), Scalar(<<2, 4>>), Scalar(3000),
       Scalar(4000), 0>>,
     <<Scalar(42000), List(<<3000, 10000>>), Scalar(<<2, 4>>), Scalar(3000),
       Scalar(4000), 2>>,
     <<Scalar(42000), List(<<10000>>), Scalar(<<2, 4>>), Scalar(3000),
       Scalar(4000), 2>>,
     <<List(<<42000, 40000>>), Scalar(10000), Scalar(<<2, 4>>), Scalar(3000),
       Scalar(4000), 0>>,
     <<List(<<42000, 40000>>), List(<<3000, 10000>>), Scalar(<<2, 4>>),
       Scalar(3000), Scalar(4000), 0>>,
     <<List(<<42000, 40000>>), List(<<10000>>), Scalar(<<2, 4>>),
       Scalar(3000), Scalar(4000), 2>>,
     <<Scalar(42000), Scalar(10000), Scalar(<<>>), Scalar(3000),
       Scalar(4000), 2>>,
     <<Scalar(42000), Scalar(10000), Scalar(<<2, 4>>), Scalar(0),
       Scalar(4000), 2>>}

(***************************************************************************)
(* Python helpers                                                          *)
(***************************************************************************)
Elems(s) == {s[i] : i \in 1..Len(s)}

\* obj.attr = value
SetAttr(obj, attr, value) == (attr :> value) @@ obj

HasAttr(obj, attr) == attr \in DOMAIN obj

\* A Python float (IEEE-754 binary64, normal range) is carried as
\* [neg, man, exp] standing for (-1)^neg * man * 2^exp, with man = 0 or
\* 2^52 <= man < 2^53.  man is a natural number in three limbs <<a2, a1, a0>>
\* of 20 bits, a2 * 2^40 + a1 * 2^20 + a0.
Limb == 2 ^ 20

BigZero == << 0, 0, 0 >>

BigOf(n) == << 0, n \div Limb, n % Limb >>

BigIsZero(x) == x[1] = 0 /\ x[2] = 0 /\ x[3] = 0

BigGeq(x, y) ==
    \/ x[1] > y[1]
    \/ x[1] = y[1] /\ (x[2] > y[2] \/ (x[2] = y[2] /\ x[3] >= y[3]))

BigAdd(x, y) ==
    LET s0 == x[3] + y[3]
        s1 == x[2] + y[2] + s0 \div Limb
    IN  << x[1] + y[1] + s1 \div Limb, s1 % Limb, s0 % Limb >>

\* x - y for x >= y
BigSub(x, y) ==
    LET d0 == x[3] - y[3]
        b0 == IF d0 < 0 THEN 1 ELSE 0
        d1 == x[2] - y[2] - b0
        b1 == IF d1 < 0 THEN 1 ELSE 0
    IN  << x[1] - y[1] - b1, d1 + b1 * Limb, d0 + b0 * Limb >>

\* x * k for a small k
BigMul(x, k) ==
    LET p0 == x[3] * k
        p1 == x[2] * k + p0 \div Limb
    IN  << x[1] * k + p1 \div Limb, p1 % Limb, p0 % Limb >>

\* number of significant bits of an int 0 <= n < 2^30
IntBits(n) == CHOOSE k \in 0..30 : n < 2 ^ k /\ (k = 0 \/ n >= 2 ^ (k - 1))

\* number of significant bits
BigBits(x) ==
    IF x[1] # 0 THEN 40 + IntBits(x[1])
    ELSE IF x[2] # 0 THEN 20 + IntBits(x[2])
    ELSE IntBits(x[3])

\* x * 2^k
RECURSIVE BigShl(_, _)
BigShl(x, k) ==
    IF k = 0 THEN x
    ELSE IF k >= 20 THEN BigShl(<< x[1] * Limb + x[2], x[3], 0 >>, k - 20)
    ELSE LET p == 2 ^ k
             q == Limb \div p
         IN  << x[1] * p + x[2] \div q,
                (x[2] % q) * p + x[3] \div q,
                (x[3] % q) * p >>

\* <<x \div 2^k, whether a one bit was shifted out>>
RECURSIVE BigShr(_, _)
BigShr(x, k) ==
    IF k = 0 THEN << x, FALSE >>
    ELSE IF k >= 20
    THEN LET r == BigShr(<< 0, x[1], x[2] >>, k - 20)
         IN  << r[1], r[2] \/ x[3] # 0 >>
    ELSE LET p == 2 ^ k
             q == Limb \div p
         IN  << << x[1] \div p,
                   x[2] \div p + (x[1] % p) * q,
                   x[3] \div p + (x[2] % p) * q >>,
                x[3] % p # 0 >>

\* the float man * 2^exp for man below 2^54: a 54-bit man is even here and
\* loses its last bit
FloatNorm(neg, man, exp) ==
    IF BigBits(man) = 54
    THEN [neg |-> neg, man |-> BigShr(man, 1)[1], exp |-> exp + 1]
    ELSE [neg |-> neg, man |-> man, exp |-> exp]

\* round to nearest, ties to even, r = <<man, sticky>> where man holds 54
\* bits, the last of them the guard bit, and stands for man * 2^(exp-1)
FloatRoundGuard(neg, r, exp, sticky) ==
    LET grd == r[1][3] % 2 = 1
        q   == BigShr(r[1], 1)[1]
        up  == grd /\ (r[2] \/ sticky \/ q[3] % 2 = 1)
    IN  FloatNorm(neg, IF up THEN BigAdd(q, BigOf(1)) ELSE q, exp)

\* round man * 2^exp (sticky: a nonzero part below man was dropped) to the
\* nearest float, ties to even
FloatRound(neg, man, exp, sticky) ==
    LET len == BigBits(man)
    IN  IF len = 0 THEN [neg |-> neg, man |-> BigZero, exp |-> 0]
        ELSE IF len <= 53
        THEN [neg |-> neg, man |-> BigShl(man, 53 - len), exp |-> exp - (53 - len)]
        ELSE FloatRoundGuard(neg, BigShr(man, len - 54), exp + len - 53, sticky)

\* float(n) for an int n
FloatOfInt(n) ==
    FloatRound(n < 0, BigOf(IF n < 0 THEN -n ELSE n), 0, FALSE)

\* one step of binary long division by d on s = <<quotient, remainder>>
DivStep(s, d) ==
    LET r2 == BigAdd(s[2], s[2])
        q2 == BigAdd(s[1], s[1])
    IN  IF BigGeq(r2, d)
        THEN << BigAdd(q2, BigOf(1)), BigSub(r2, d) >>
        ELSE << q2, r2 >>

DivStep6(s, d) ==
    DivStep(DivStep(DivStep(DivStep(DivStep(DivStep(s, d), d), d), d), d), d)

\* k more quotient bits, k a multiple of 6
RECURSIVE DivBits(_, _, _)
DivBits(s, d, k) ==
    IF k = 0 THEN s
    ELSE LET t == DivStep6(s, d)
         IN  IF BigIsZero(t[2]) /\ k = 6 THEN t ELSE DivBits(t, d, k - 6)

\* <<n \div d, n % d # 0>> for an int 0 < d < 2^10 and n below 2^65 (its
\* top limb below 2^25): short division, limb by limb
BigDivSmall(n, d) ==
    LET c2 == (n[1] % d) * Limb + n[2]
        c3 == (c2 % d) * Limb + n[3]
    IN  << << n[1] \div d, c2 \div d, c3 \div d >>, c3 % d # 0 >>

\* <<n \div d, n % d # 0>> from the <<quotient, remainder>> of a division
QuotSticky(t) == << t[1], ~BigIsZero(t[2]) >>

\* FloatRound of a quotient qr = <<man, sticky>>
FloatRoundQuot(neg, qr, exp) == FloatRound(neg, qr[1], exp, qr[2])

\* x / y for floats, y # 0, correctly rounded.  A divisor of at most ten
\* significant bits (man = d * 2^43) is divided by in one short division of
\* man * 2^12; any other divisor by long division, 54 quotient bits
FloatDiv(x, y) ==
    IF BigIsZero(x.man)
    THEN [neg |-> x.neg # y.neg, man |-> BigZero, exp |-> 0]
    ELSE IF y.man[2] = 0 /\ y.man[3] = 0 /\ y.man[1] % 8 = 0
    THEN FloatRoundQuot(x.neg # y.neg,
                        BigDivSmall(BigShl(x.man, 12), y.man[1] \div 8),
                        x.exp - y.exp - 55)
    ELSE LET lt == ~BigGeq(x.man, y.man)
             a  == IF lt THEN BigAdd(x.man, x.man) ELSE x.man
             e  == x.exp - y.exp - (IF lt THEN 1 ELSE 0)
         IN  FloatRoundQuot(x.neg # y.neg,
                 QuotSticky(DivBits(<< BigOf(1), BigSub(a, y.man) >>, y.man, 54)),
                 e - 54)

\* magnitudes: |x| >= |y|
FloatMagGeq(x, y) ==
    IF BigIsZero(y.man) THEN TRUE
    ELSE IF BigIsZero(x.man) THEN FALSE
    ELSE x.exp > y.exp \/ (x.exp = y.exp /\ BigGeq(x.man, y.man))

\* round the aligned sum or difference man * 2^exp; an exact zero is +0.0
FloatAddRound(neg, man, exp, sticky) ==
    IF BigIsZero(man) /\ ~sticky
    THEN [neg |-> FALSE, man |-> BigZero, exp |-> 0]
    ELSE FloatRound(neg, man, exp, sticky)

\* a + br or a - br for a >= br, br = <<man, sticky>> the smaller magnitude
\* with the bits shifted out of it
FloatAddAligned(neg, same, a, br, exp) ==
    FloatAddRound(neg,
                  IF same THEN BigAdd(a, br[1])
                  ELSE IF br[2] THEN BigSub(BigSub(a, br[1]), BigOf(1))
                  ELSE BigSub(a, br[1]),
                  exp, br[2])

\* x + y for floats
FloatAdd(x, y) ==
    LET big   == IF FloatMagGeq(x, y) THEN x ELSE y
        small == IF FloatMagGeq(x, y) THEN y ELSE x
    IN  IF BigIsZero(small.man)
        THEN (IF BigIsZero(big.man)
              THEN [neg |-> x.neg /\ y.neg, man |-> BigZero, exp |-> 0]
              ELSE big)
        ELSE LET d  == big.exp - small.exp
                 up == IF d <= 10 THEN d ELSE 10
             IN  FloatAddAligned(big.neg, big.neg = small.neg,
                                 BigShl(big.man, up),
                                 BigShr(small.man, d - up), big.exp - up)

FloatNeg(x) == [x EXCEPT !.neg = ~x.neg]

FloatSub(x, y) == FloatAdd(x, FloatNeg(y))

\* x * 1000 for a float x
FloatMul1000(x) == FloatRound(x.neg, BigMul(x.man, 125), x.exp + 3, FALSE)

\* int(x) for a float x below 2^31 in magnitude: truncation toward zero
FloatInt(x) ==
    LET q == IF x.exp >= 0 THEN BigShl(x.man, x.exp)
             ELSE BigShr(x.man, -x.exp)[1]
        n == q[2] * Limb + q[3]
    IN  IF x.neg THEN -n ELSE n

\* the float written n/1000 in decimal (n an int): the nearest float
FloatOfMilli(n) ==
    IF n % 1000 = 0 THEN FloatOfInt(n \div 1000)
    ELSE FloatDiv(FloatOfInt(n), FloatOfInt(1000))

\* int(a / b * 1000) for ints a, b with b # 0: the true division and the
\* product are rounded to floats, int() truncates toward zero
IntMs(a, b) ==
    FloatInt(FloatMul1000(FloatDiv(FloatOfInt(a), FloatOfInt(b))))

RECURSIVE Zeros(_)
Zeros(k) == IF k <= 0 THEN "" ELSE "0" \o Zeros(k - 1)

\* str(n).zfill(width) for an int n: the sign, if any, stays in front
zfill(n, width) ==
    IF n < 0
    THEN "-" \o Zeros(width - Len(ToString(n))) \o ToString(-n)
    ELSE Zeros(width - Len(ToString(n))) \o ToString(n)

format_temp(temp, zero_fill_len) == zfill(temp * 10, zero_fill_len)

format_ms(ms, zero_fill_len) == zfill(ms, zero_fill_len)

(***************************************************************************)
(* class tcsii                                                             *)
(***************************************************************************)
\* "if baseline > 45 or baseline < 30: Warning(...)": the Warning object is
\* built and dropped; it is neither raised nor handed to the warnings module,
\* so the caller is shown nothing on either branch
baseline_check(baseline) ==
    IF baseline > 45 \/ baseline < 30 THEN <<>> ELSE <<>>

\* tcsii.__init__: the attributes it assigns
tcsii_attrs(baseline, max_temp, beep, trigger_in) ==
    [baseline   |-> baseline,
     max_temp   |-> max_temp,
     stim_set   |-> FALSE,
     beep       |-> beep,
     trigger_in |-> trigger_in]

\* tcsii_writes with the display muted before the limits are set
tcsii_writes_mute_first(baseline, max_temp, trigger_in) ==
    << "F",
       "N" \o format_temp(baseline, 3),
       "Om" \o format_temp(max_temp, 3),
       IF trigger_in THEN "Ose" ELSE "Osd" >>

\* tcsii.__init__: what it writes to the port
tcsii_writes(baseline, max_temp, trigger_in) ==
    << "N" \o format_temp(baseline, 3),
       "Om" \o format_temp(max_temp, 3),
       "F",
       IF trigger_in THEN "Ose" ELSE "Osd" >>

tcsii_init(baseline, max_temp, beep, trigger_in) ==
    /\ inst = "tcsii"
    /\ dev = tcsii_attrs(baseline, max_temp, beep, trigger_in)
    /\ port = tcsii_writes(baseline, max_temp, trigger_in)
    /\ n_steps = 0
    /\ protocol = <<>>
    /\ file = <<>>
    /\ call = [op |-> "__init__", baseline |-> baseline, max_temp |-> max_temp,
               beep |-> beep, trigger_in |-> trigger_in]
    /\ err = "none"
    /\ warned = baseline_check(baseline)

\* tcsii.custom_command
custom_command(command) ==
    /\ inst = "tcsii"
    /\ port' = << command >>
    /\ call' = [op |-> "custom_command", command |-> command]
    /\ err' = "none"
    /\ warned' = <<>>
    /\ UNCHANGED <<inst, dev, genVars>>

\* tcsii.reset
reset ==
    /\ inst = "tcsii"
    /\ port' = << "Oc" >>
    /\ call' = [op |-> "reset"]
    /\ err' = "none"
    /\ warned' = <<>>
    /\ UNCHANGED <<inst, dev, genVars>>

\* tcsii.print_temp: one 'E' request, whose answer is printed
print_temp ==
    /\ inst = "tcsii"
    /\ port' = << "E" >>
    /\ call' = [op |-> "print_temp"]
    /\ err' = "none"
    /\ warned' = <<>>
    /\ UNCHANGED <<inst, dev, genVars>>

\* tcsii.set_baseline: only writes; self.baseline is not assigned
live_set_baseline(baseline) ==
    /\ inst = "tcsii"
    /\ port' = << "N" \o format_temp(baseline, 3) >>
    /\ call' = [op |-> "set_baseline", baseline |-> baseline]
    /\ err' = "none"
    /\ warned' = baseline_check(baseline)
    /\ UNCHANGED <<inst, dev, genVars>>

\* set_stim, "Store parameters"
stim_params(d, target, rise_rate, return_rate, trigger_code, trigger_dur_ms) ==
    LET d1 == SetAttr(d,  "stim_set", TRUE)
        d2 == SetAttr(d1, "stim_target_temp", target)
        d3 == SetAttr(d2, "stim_rise_rate", rise_rate)
        d4 == SetAttr(d3, "stim_return_rate", return_rate)
        d5 == SetAttr(d4, "stim_trigger_code", trigger_code)
    IN  SetAttr(d5, "stim_strigger_dur_ms", trigger_dur_ms)

\* set_stim, "Duration for rise": self.stim_rise_dur_ms, for a nonzero rate
stim_rise(d) ==
    SetAttr(d, "stim_rise_dur_ms",
            IntMs(d.stim_target_temp - d.baseline, d.stim_rise_rate))

\* set_stim, self.stim_return_dur_ms, for a nonzero rate
stim_return(d) ==
    SetAttr(d, "stim_return_dur_ms",
            IntMs(d.stim_target_temp - d.baseline, d.stim_return_rate))

\* set_stim, "Store parameters" and the two phase durations
stim_store(d, target, rise_rate, return_rate, trigger_code, trigger_dur_ms) ==
    stim_return(stim_rise(stim_params(d, target, rise_rate, return_rate,
                                      trigger_code, trigger_dur_ms)))

\* stim_duration with the rise time added in mode 'fixed_stim' as well
stim_duration_stim_rise(d, dur_ms, dur_mode) ==
    LET dur1 == IF dur_mode \in {"fixed_plateau", "fixed_stim"}
                THEN dur_ms + d.stim_rise_dur_ms ELSE dur_ms
        d1 == IF dur_mode = "fixed_total"
              THEN SetAttr(d, "stim_duration_ms", dur1 - d.stim_return_dur_ms)
              ELSE d
        d2 == IF dur_mode = "fixed_stim"
              THEN SetAttr(d1, "stim_duration_ms", dur1)
              ELSE d1
    IN  SetAttr(d2, "duration_mode", dur_mode)

\* set_stim, the three "if dur_mode ==" statements and self.duration_mode
stim_duration(d, dur_ms, dur_mode) ==
    LET dur1 == IF dur_mode = "fixed_plateau"
                THEN dur_ms + d.stim_rise_dur_ms ELSE dur_ms
        d1 == IF dur_mode = "fixed_total"
              THEN SetAttr(d, "stim_duration_ms", dur1 - d.stim_return_dur_ms)
              ELSE d
        d2 == IF dur_mode = "fixed_stim"
              THEN SetAttr(d1, "stim_duration_ms", dur1)
              ELSE d1
    IN  SetAttr(d2, "duration_mode", dur_mode)

\* set_stim, the string after 'S'
surf_ls(surfaces) ==
    IF surfaces[1] # "list"
    THEN "11111"
    ELSE LET bit(i) == IF i \in Elems(surfaces[2]) THEN "1" ELSE "0"
         IN  bit(1) \o bit(2) \o bit(3) \o bit(4) \o bit(5)

\* set_stim, the five writes, on d, the attributes after the duration
\* statements.  Reading self.stim_duration_ms for the 'D0' write raises
\* AttributeError when no call has assigned it yet.
stim_write(d, surfaces) ==
    IF HasAttr(d, "stim_duration_ms")
    THEN /\ dev' = SetAttr(SetAttr(d, "surfaces", surfaces),
                           "all_surfaces", surfaces[1] # "list")
         /\ port' = << "C0" \o format_temp(d.stim_target_temp, 3),
                       "V0" \o format_temp(d.stim_rise_rate, 4),
                       "R0" \o format_temp(d.stim_return_rate, 4),
                       "D0" \o format_ms(d.stim_duration_ms, 5),
                       "S" \o surf_ls(surfaces) >>
         /\ err' = "none"
    ELSE /\ dev' = d
         /\ port' = << "C0" \o format_temp(d.stim_target_temp, 3),
                       "V0" \o format_temp(d.stim_rise_rate, 4),
                       "R0" \o format_temp(d.stim_return_rate, 4) >>
         /\ err' = "AttributeError"

\* tcsii.set_stim.  A zero rate raises ZeroDivisionError in the division that
\* uses it, after the attributes assigned before it.
set_stim(target, rise_rate, return_rate, dur_ms, dur_mode, surfaces) ==
    /\ inst = "tcsii"
    /\ IF rise_rate = 0
       THEN /\ dev' = stim_params(dev, target, rise_rate, return_rate, 255, 10)
            /\ port' = <<>>
            /\ err' = "ZeroDivisionError"
       ELSE IF return_rate = 0
       THEN /\ dev' = stim_rise(stim_params(dev, target, rise_rate,
                                            return_rate, 255, 10))
            /\ port' = <<>>
            /\ err' = "ZeroDivisionError"
       ELSE stim_write(stim_duration(stim_store(dev, target, rise_rate,
                                                return_rate, 255, 10),
                                     dur_ms, dur_mode),
                       surfaces)
    /\ call' = [op |-> "set_stim", target |-> target, rise_rate |-> rise_rate,
                return_rate |-> return_rate, dur_ms |-> dur_ms,
                dur_mode |-> dur_mode, surfaces |-> surfaces]
    /\ warned' = <<>>
    /\ UNCHANGED <<inst, genVars>>

\* tcsii.trigger: 'L' first, then self.tport, an attribute nothing assigns
trigger ==
    /\ inst = "tcsii"
    /\ port' = << "L" >>
    /\ err' = IF dev.beep THEN "AttributeError" ELSE "none"
    /\ call' = [op |-> "trigger"]
    /\ warned' = <<>>
    /\ UNCHANGED <<inst, dev, genVars>>

\* the while loop of trigger_and_save_temp: number of polls when every
\* exchange takes `latency` ms and the loop runs while elapsed < limit_ms
RECURSIVE polls(_, _, _)
polls(elapsed, limit_ms, latency) ==
    IF elapsed < limit_ms
    THEN 1 + polls(elapsed + latency, limit_ms, latency)
    ELSE 0

\* one response line of 'E' after replace/split/astype(float)/10
sample == <<30, 30, 30, 30, 30, 30>>

\* tcsii.trigger_and_save_temp
trigger_and_save_temp(offset_s, latency) ==
    /\ inst = "tcsii"
    /\ call' = [op |-> "trigger_and_save_temp", offset_s |-> offset_s,
                latency |-> latency]
    /\ IF dev.beep
       THEN \* self.tport raises before anything is written
            /\ port' = <<>>
            /\ dev' = dev
            /\ err' = "AttributeError"
       ELSE IF ~HasAttr(dev, "stim_total_duration_ms")
       THEN \* the loop condition raises on its first evaluation
            /\ port' = << "L" >>
            /\ dev' = dev
            /\ err' = "AttributeError"
       ELSE LET n == polls(0, dev.stim_total_duration_ms + offset_s * 1000,
                           latency)
            IN  /\ port' = << "L" >> \o [i \in 1..n |-> "E"]
                /\ dev' = SetAttr(dev, "read_outs", [i \in 1..n |-> sample])
                /\ err' = "none"
    /\ warned' = <<>>
    /\ UNCHANGED <<inst, genVars>>

\* tcsii.trigger_and_plot_temp: the same trigger and loop, then the figures.
\* last_fig is "Figure" or the list of the figures.  With no poll the array
\* has one axis and indexing its second one raises; self.stim_target_temp is
\* read while drawing
trigger_and_plot_temp(offset_s, latency, fig_each_zone) ==
    /\ inst = "tcsii"
    /\ call' = [op |-> "trigger_and_plot_temp", offset_s |-> offset_s,
                latency |-> latency, fig_each_zone |-> fig_each_zone]
    /\ IF dev.beep
       THEN /\ port' = <<>>
            /\ dev' = dev
            /\ err' = "AttributeError"
       ELSE IF ~HasAttr(dev, "stim_total_duration_ms")
       THEN /\ port' = << "L" >>
            /\ dev' = dev
            /\ err' = "AttributeError"
       ELSE LET n == polls(0, dev.stim_total_duration_ms + offset_s * 1000,
                           latency)
                d1 == SetAttr(dev, "read_outs", [i \in 1..n |-> sample])
                d2 == IF fig_each_zone THEN SetAttr(d1, "last_fig", <<>>)
                      ELSE d1
            IN  /\ port' = << "L" >> \o [i \in 1..n |-> "E"]
                /\ IF n = 0
                   THEN dev' = d2 /\ err' = "IndexError"
                   ELSE IF ~HasAttr(dev, "stim_target_temp")
                   THEN dev' = d2 /\ err' = "AttributeError"
                   ELSE /\ dev' = SetAttr(d1, "last_fig",
                                     IF fig_each_zone
                                     THEN [i \in 1..Len(sample) |-> "Figure"]
                                     ELSE "Figure")
                        /\ err' = "none"
    /\ warned' = <<>>
    /\ UNCHANGED <<inst, genVars>>

\* a direct call of tcsii.format_ms; ret is the string it returns
call_format_ms(ms, zero_fill_len) ==
    /\ inst = "tcsii"
    /\ call' = [op |-> "format_ms", ms |-> ms,
                zero_fill_len |-> zero_fill_len,
                ret |-> format_ms(ms, zero_fill_len)]
    /\ port' = <<>>
    /\ err' = "none"
    /\ warned' = <<>>
    /\ UNCHANGED <<inst, dev, genVars>>

\* a direct call of tcsii.format_temp; ret is the string it returns
call_format_temp(temp, zero_fill_len) ==
    /\ inst = "tcsii"
    /\ call' = [op |-> "format_temp", temp |-> temp,
                zero_fill_len |-> zero_fill_len,
                ret |-> format_temp(temp, zero_fill_len)]
    /\ port' = <<>>
    /\ err' = "none"
    /\ warned' = <<>>
    /\ UNCHANGED <<inst, dev, genVars>>

(***************************************************************************)
(* class tcsii_protocol_generator                                          *)
(***************************************************************************)
\* the text of f'{x:.3f}' from the sign of x and n = |x| * 1000 rounded
f3_digits(neg, n) ==
    (IF neg THEN "-" ELSE "") \o ToString(n \div 1000) \o "."
    \o Zeros(3 - Len(ToString(n % 1000))) \o ToString(n % 1000)

\* |x| * 1000 rounded to an int, ties to even, for r = <<man, sticky>>
\* where man holds |x| * 2000 less the bits shifted out of it
f3_round(r) ==
    LET q == BigShr(r[1], 1)[1]
    IN  q[2] * Limb + q[3]
        + (IF r[1][3] % 2 = 1 /\ (r[2] \/ q[3] % 2 = 1) THEN 1 ELSE 0)

\* f'{x:.3f}' for a float x: x * 1000 exactly, rounded to an integer, ties to
\* even
f3(x) ==
    f3_digits(x.neg,
              f3_round(IF BigIsZero(x.man) THEN << BigZero, FALSE >>
                       ELSE BigShr(BigMul(x.man, 125), -(x.exp + 3) - 1)))

\* tcsii_protocol_generator.__init__
generator_init(recordTemperatures) ==
    /\ inst = "generator"
    /\ n_steps = 0
    /\ protocol = << "[protocol]", "stepsNumber=0",
                     "recordTemperatures=" \o ToString(recordTemperatures),
                     "" >>
    /\ file = <<>>
    /\ dev = <<>>
    /\ port = <<>>
    /\ call = [op |-> "generator.__init__"]
    /\ err = "none"
    /\ warned = <<>>

\* stim_duration_smmm with 'fixed_plateau' adding the return time
stim_duration_smmm_plateau_return(target_temp, baseline, rise_rate, return_rate, duration_smmm, duration_mode) ==
    LET return_time == FloatDiv(FloatSub(target_temp, baseline), return_rate)
        d1 == IF duration_mode = "fixed_plateau"
              THEN FloatAdd(duration_smmm, return_time) ELSE duration_smmm
    IN  IF duration_mode = "fixed_total" THEN FloatSub(d1, return_time) ELSE d1

\* add_stimulation, "Duration mode": the float duration_smmm after the three
\* ifs, for floats and nonzero rates; nothing is rounded but the float
\* operations themselves
stim_duration_smmm(target_temp, baseline, rise_rate, return_rate, duration_smmm, duration_mode) ==
    LET rise_time   == FloatDiv(FloatSub(target_temp, baseline), rise_rate)
        return_time == FloatDiv(FloatSub(target_temp, baseline), return_rate)
        d1 == IF duration_mode = "fixed_plateau"
              THEN FloatAdd(duration_smmm, rise_time) ELSE duration_smmm
    IN  IF duration_mode = "fixed_total" THEN FloatSub(d1, return_time) ELSE d1

\* zone_lines enabling every zone
zone_lines_all_enabled(curr_step, z, zones, duration_s, wait_s, target_s, rise_s, return_s) ==
    << "[step" \o ToString(curr_step) \o "_zone" \o ToString(z) \o "]",
       "enabled=1",
       "duration=" \o duration_s,
       "wait=" \o wait_s,
       "temperature=" \o target_s,
       "speed=" \o rise_s,
       "return=" \o return_s,
       "pointToPointEnabled=0",
       "nbrPts=1",
       "sec1=1.000",
       "deg1=30.000",
       "" >>

\* add_stimulation, the block appended for zone z
zone_lines(curr_step, z, zones, duration_s, wait_s, target_s, rise_s, return_s) ==
    << "[step" \o ToString(curr_step) \o "_zone" \o ToString(z) \o "]",
       IF z \in Elems(zones) THEN "enabled=1" ELSE "enabled=0",
       "duration=" \o duration_s,
       "wait=" \o wait_s,
       "temperature=" \o target_s,
       "speed=" \o rise_s,
       "return=" \o return_s,
       "pointToPointEnabled=0",
       "nbrPts=1",
       "sec1=1.000",
       "deg1=30.000",
       "" >>

\* add_stimulation: the lines it appends as step number curr_step, from the
\* numbers as the f-strings format them
stimulation_text(curr_step, zones, trig_out_val, duration_s, wait_s, target_s, rise_s, return_s, baseline_s, trig_dur_s) ==
    LET zl(z) == zone_lines(curr_step, z, zones, duration_s, wait_s,
                            target_s, rise_s, return_s)
    IN  << "[step" \o ToString(curr_step) \o "]",
           "stepType=0",
           "stepTypeText=STIMULATE",
           "",
           "[step" \o ToString(curr_step) \o "_stimulation]",
           "baseline=" \o baseline_s,
           "triggerVal=" \o ToString(trig_out_val),
           "triggerDur=" \o trig_dur_s,
           "" >>
        \o zl(1) \o zl(2) \o zl(3) \o zl(4) \o zl(5)

\* add_stimulation: the lines it appends as step number curr_step
stimulation_lines(curr_step, target_temp, rise_rate, return_rate, duration_smmm, baseline, wait, zones, trig_out_val, trig_out_dur, duration_mode) ==
    stimulation_text(curr_step, zones, trig_out_val,
        f3(stim_duration_smmm(FloatOfMilli(target_temp),
               FloatOfMilli(baseline), FloatOfMilli(rise_rate),
               FloatOfMilli(return_rate), FloatOfMilli(duration_smmm),
               duration_mode)),
        f3(FloatOfMilli(wait)), f3(FloatOfMilli(target_temp)),
        f3(FloatOfMilli(rise_rate)), f3(FloatOfMilli(return_rate)),
        f3(FloatOfMilli(baseline)), f3(FloatOfMilli(trig_out_dur)))

\* add_wait_trigger_in: the lines it appends as step number curr_step
wait_lines(curr_step) ==
    << "[step" \o ToString(curr_step) \o "]",
       "stepType=2",
       "stepTypeText=WAIT",
       "typeWait=3",
       "typeWaitText=WAIT_TRIGGER",
       "number=1",
       "" >>

\* set_baseline: the lines it appends as step number curr_step
baseline_lines(curr_step, baseline_temp, adjust_to_skin) ==
    << "[step" \o ToString(curr_step) \o "]",
       "stepType=6",
       "stepTypeText=BASELINE",
       "baseline=" \o f3(FloatOfMilli(baseline_temp)),
       "adjustToSkin=" \o ToString(adjust_to_skin),
       "" >>

\* set_constant_temp: the four lines of surface z, from the numbers as the
\* f-strings format them
const_zone_lines(z, zones, temp_s, speed_s, hold_s) ==
    << "constTemp" \o ToString(z) \o "=" \o temp_s,
       "constTempSpeed=" \o ToString(z) \o speed_s,
       IF z \in Elems(zones)
       THEN "enableConsTemp" \o ToString(z) \o "=1"
       ELSE "enableConsTemp" \o ToString(z) \o "=0",
       "ConstTempHold" \o ToString(z) \o "=" \o hold_s >>

const_temp_text(curr_step, zones, temp_s, speed_s, hold_s) ==
    LET cz(z) == const_zone_lines(z, zones, temp_s, speed_s, hold_s)
    IN  << "[step" \o ToString(curr_step) \o "]",
           "stepType=8",
           "stepTypeText=SET_CONST_TEMP" >>
        \o cz(1) \o cz(2) \o cz(3) \o cz(4) \o cz(5) \o << "" >>

\* set_constant_temp: the lines it appends as step number curr_step
const_temp_lines(curr_step, constant_temp, duration_s, speed, zones) ==
    const_temp_text(curr_step, zones, f3(FloatOfMilli(constant_temp)),
                    f3(FloatOfMilli(speed)), f3(FloatOfMilli(duration_s)))

\* do_add_wait_trigger_in numbering the header before raising the counter
do_add_wait_trigger_in_stale_number(g) ==
    [n_steps  |-> g.n_steps + 1,
     protocol |-> g.protocol \o wait_lines(g.n_steps),
     err      |-> g.err]

\* self.n_steps += 1 and the appends of one step, on
\* g = [n_steps, protocol, err]; err is the exception raised so far
do_add_wait_trigger_in(g) ==
    [n_steps  |-> g.n_steps + 1,
     protocol |-> g.protocol \o wait_lines(g.n_steps + 1),
     err      |-> g.err]

\* add_stimulation: a zero rate raises in the divisions that open the method,
\* before n_steps or protocol is touched
do_add_stimulation(g, target_temp, rise_rate, return_rate, duration_smmm, baseline, wait, zones, trig_out_val, trig_out_dur, duration_mode) ==
    IF rise_rate = 0 \/ return_rate = 0
    THEN [g EXCEPT !.err = "ZeroDivisionError"]
    ELSE [n_steps  |-> g.n_steps + 1,
          protocol |-> g.protocol \o
                  stimulation_lines(g.n_steps + 1, target_temp, rise_rate,
                                    return_rate, duration_smmm, baseline, wait,
                                    zones, trig_out_val, trig_out_dur,
                                    duration_mode),
          err      |-> g.err]

self == [n_steps |-> n_steps, protocol |-> protocol, err |-> "none"]

\* an append call that left the generator as g
Appended(g, c) ==
    /\ inst = "generator"
    /\ n_steps' = g.n_steps
    /\ protocol' = g.protocol
    /\ call' = c
    /\ err' = g.err
    /\ UNCHANGED <<inst, file, liveVars>>

\* tcsii_protocol_generator.add_stimulation (wait, trig_out_val and
\* trig_out_dur at their defaults)
add_stimulation(target_temp, rise_rate, return_rate, duration_smmm, baseline, zones, duration_mode) ==
    /\ n_steps < MaxSteps
    /\ Appended(do_add_stimulation(self, target_temp, rise_rate, return_rate,
                                   duration_smmm, baseline, 0, zones, 255, 300,
                                   duration_mode),
                [op |-> "add_stimulation", target_temp |-> target_temp,
                 rise_rate |-> rise_rate, return_rate |-> return_rate,
                 duration_smmm |-> duration_smmm, baseline |-> baseline,
                 zones |-> zones, duration_mode |-> duration_mode,
                 at |-> Len(protocol)])

\* tcsii_protocol_generator.add_wait_trigger_in
add_wait_trigger_in ==
    /\ n_steps < MaxSteps
    /\ Appended(do_add_wait_trigger_in(self),
                [op |-> "add_wait_trigger_in", at |-> Len(protocol)])

\* tcsii_protocol_generator.set_baseline
gen_set_baseline(baseline_temp, adjust_to_skin) ==
    /\ n_steps < MaxSteps
    /\ Appended([n_steps  |-> n_steps + 1,
                 protocol |-> protocol \o
                     baseline_lines(n_steps + 1, baseline_temp,
                                    adjust_to_skin),
                 err      |-> "none"],
                [op |-> "set_baseline", baseline_temp |-> baseline_temp,
                 adjust_to_skin |-> adjust_to_skin, at |-> Len(protocol)])

\* tcsii_protocol_generator.set_constant_temp
set_constant_temp(constant_temp, duration_s, speed, zones) ==
    /\ n_steps < MaxSteps
    /\ Appended([n_steps  |-> n_steps + 1,
                 protocol |-> protocol \o
                     const_temp_lines(n_steps + 1, constant_temp, duration_s,
                                      speed, zones),
                 err      |-> "none"],
                [op |-> "set_constant_temp", constant_temp |-> constant_temp,
                 duration_s |-> duration_s, speed |-> speed, zones |-> zones,
                 at |-> Len(protocol)])

\* export_protocol writing the lines without refreshing the header
export_protocol_stale_header ==
    /\ inst = "generator"
    /\ protocol' = protocol
    /\ file' = protocol
    /\ call' = [op |-> "export_protocol", after |-> call.op]
    /\ err' = "none"
    /\ UNCHANGED <<inst, n_steps, liveVars>>

\* export_protocol emptying the in-memory document once it is written
export_protocol_flush ==
    /\ inst = "generator"
    /\ file' = [protocol EXCEPT ![2] = "stepsNumber=" \o ToString(n_steps)]
    /\ protocol' = SubSeq(file', 1, 4)
    /\ call' = [op |-> "export_protocol", after |-> call.op]
    /\ err' = "none"
    /\ UNCHANGED <<inst, n_steps, liveVars>>

\* tcsii_protocol_generator.export_protocol; `after` remembers the call that
\* preceded it
export_protocol ==
    /\ inst = "generator"
    /\ protocol' = [protocol EXCEPT ![2] = "stepsNumber=" \o ToString(n_steps)]
    /\ file' = protocol'
    /\ call' = [op |-> "export_protocol", after |-> call.op]
    /\ err' = "none"
    /\ UNCHANGED <<inst, n_steps, liveVars>>

\* [x] * n
Rep(x, n) == [i \in 1..n |-> x]

\* Broadcast wrapping the scalar in a list without repeating it
Broadcast_once(p, n) == IF p.list THEN p.v ELSE << p.v >>

\* "if type(p) is not list: p = [p] * len(temp_list)"
Broadcast(p, n) == IF p.list THEN p.v ELSE Rep(p.v, n)

Min(S) == CHOOSE x \in S : \A y \in S : x <= y

\* the for loop of generate_from_lists over the first n tuples of the zip;
\* an exception raised by a trial ends the loop
RECURSIVE trials(_, _, _, _, _, _, _, _, _, _, _, _, _)
trials(g, i, n, temps, durations, rises, returns, trig_vals, zoness, baseline, wait, trigger_out_dur, duration_mode) ==
    IF i > n \/ g.err # "none"
    THEN g
    ELSE trials(do_add_stimulation(do_add_wait_trigger_in(g), temps[i],
                                   rises[i], returns[i], durations[i],
                                   baseline, wait, zoness[i], trig_vals[i],
                                   trigger_out_dur, duration_mode),
                i + 1, n, temps, durations, rises, returns, trig_vals, zoness,
                baseline, wait, trigger_out_dur, duration_mode)

\* generate_from_lists after its assert: the broadcasts, then the zip loop;
\* zones[0] of an empty zones raises before the loop
do_generate_from_lists(g, temp_list, duration_smmm, zones, rise_rate, return_rate, baseline, wait, trig_out_val, trigger_out_dur, duration_mode, n_trials) ==
    LET temps     == Broadcast(temp_list, n_trials)
        len       == Len(temps)
        durations == Broadcast(duration_smmm, len)
        zoness    == Broadcast(zones, len)
        rises     == Broadcast(rise_rate, len)
        returns   == Broadcast(return_rate, len)
        trig_vals == Broadcast(trig_out_val, len)
        n == Min({Len(temps), Len(durations), Len(rises), Len(returns),
                  Len(trig_vals), Len(zoness)})
    IN  IF zones.v = <<>>
        THEN [g EXCEPT !.err = "IndexError"]
        ELSE trials(g, 1, n, temps, durations, rises, returns, trig_vals,
                    zoness, baseline, wait, trigger_out_dur, duration_mode)

\* tcsii_protocol_generator.generate_from_lists (baseline, wait, trig_out_val,
\* trigger_out_dur and duration_mode at their defaults)
generate_from_lists(temp_list, duration_smmm, zones, rise_rate, return_rate, n_trials) ==
    /\ inst = "generator"
    /\ n_steps < MaxSteps
    /\ call' = [op |-> "generate_from_lists", temp_list |-> temp_list,
                duration_smmm |-> duration_smmm, zones |-> zones,
                rise_rate |-> rise_rate, return_rate |-> return_rate,
                n_trials |-> n_trials, at |-> Len(protocol),
                steps |-> n_steps]
    /\ IF ~temp_list.list /\ n_trials = 0
       THEN \* assert n_trials
            /\ err' = "AssertionError"
            /\ UNCHANGED <<n_steps, protocol>>
       ELSE LET g == do_generate_from_lists(self, temp_list, duration_smmm,
                         zones, rise_rate, return_rate, 30000, 0, Scalar(255),
                         100, "fixed_plateau", n_trials)
            IN  /\ n_steps' = g.n_steps
                /\ protocol' = g.protocol
                /\ err' = g.err
    /\ UNCHANGED <<inst, file, liveVars>>

(***************************************************************************)
(* Specification                                                           *)
(***************************************************************************)
Init ==
    \/ \E in \in LiveInits, max_temp \in LiveMaxTemps :
          tcsii_init(in[1], max_temp, in[2], in[3])
    \/ \E recordTemperatures \in RecordTemps :
          generator_init(recordTemperatures)

Next ==
    \/ \E baseline \in LiveBaselines : live_set_baseline(baseline)
    \/ \E command \in Commands : custom_command(command)
    \/ reset
    \/ print_temp
    \/ \E in \in LiveStimInputs :
          set_stim(in[1], in[2], in[3], in[4], in[5], in[6])
    \/ trigger
    \/ \E offset_s \in Offsets, latency \in Latencies :
          trigger_and_save_temp(offset_s, latency)
    \/ \E offset_s \in Offsets, latency \in Latencies,
          fig_each_zone \in BOOLEAN :
          trigger_and_plot_temp(offset_s, latency, fig_each_zone)
    \/ \E in \in GenStimInputs :
          add_stimulation(in[1], in[2], in[3], in[4], in[5], in[6], in[7])
    \/ add_wait_trigger_in
    \/ \E baseline_temp \in GenBaselines, adjust_to_skin \in AdjustToSkin :
          gen_set_baseline(baseline_temp, adjust_to_skin)
    \/ \E constant_temp \in ConstTemps, duration_s \in ConstDurations,
          speed \in ConstSpeeds, zones \in GenZones :
          set_constant_temp(constant_temp, duration_s, speed, zones)
    \/ \E in \in ListInputs :
          generate_from_lists(in[1], in[2], in[3], in[4], in[5], in[6])
    \/ export_protocol

Spec == Init /\ [][Next]_vars

\* The two encoders called directly on a connected session
EncInit == Init /\ inst = "tcsii"

EncNext ==
    \/ \E ms \in EncMs, zero_fill_len \in EncWidths :
          call_format_ms(ms, zero_fill_len)
    \/ \E temp \in EncTemps, zero_fill_len \in EncWidths :
          call_format_temp(temp, zero_fill_len)

EncSpec == EncInit /\ [][EncNext]_vars

(***************************************************************************)
(* Properties                                                              *)
(***************************************************************************)
StepTypeTexts == {"stepTypeText=STIMULATE", "stepTypeText=WAIT",
                  "stepTypeText=BASELINE", "stepTypeText=SET_CONST_TEMP"}

\* positions of the '[stepN]' headers of a document that open a step block
StepBlocks(doc) ==
    LET headers == {"[step" \o ToString(k) \o "]" : k \in 1..Len(doc)}
    IN  {i \in 1..(Len(doc) - 2) :
            doc[i + 2] \in StepTypeTexts /\ doc[i] \in headers}

\* the 'duration=' line of zone z in the STIMULATE step appended at `at`
ZoneDuration(doc, at, z) == doc[at + 9 + 12 * (z - 1) + 3]

\* a number given in thousandths, written with three decimals
Dec3(m) ==
    LET a    == IF m < 0 THEN -m ELSE m
        frac == ToString(a % 1000)
    IN  (IF m < 0 THEN "-" ELSE "") \o ToString(a \div 1000) \o "."
        \o Zeros(3 - Len(frac)) \o frac

\* the integers nearest to num / den, den > 0: two of them when num / den
\* lies halfway between two integers
Nearest(num, den) ==
    LET q == num \div den
    IN  {k \in {q, q + 1} : 2 * (k * den - num) <= den
                            /\ 2 * (num - k * den) <= den}

\* the rates of call c are in the domain of the duration resolver
ValidRates(c) == c.rise_rate > 0 /\ c.return_rate > 0

\* a / b seconds in whole milliseconds, b > 0
DurationMs(a, b) == (a * 1000) \div b

ValidModes == {"fixed_stim", "fixed_plateau", "fixed_total"}

\* the effective duration the arguments of a set_stim call stand for, in
\* the arithmetic of set_stim
ExpectedDurationMs(c, baseline) ==
    IF c.dur_mode = "fixed_plateau"
    THEN c.dur_ms + IntMs(c.target - baseline, c.rise_rate)
    ELSE IF c.dur_mode = "fixed_total"
    THEN c.dur_ms - IntMs(c.target - baseline, c.return_rate)
    ELSE c.dur_ms

\* C1: the exported file's 'stepsNumber=<k>' line has k equal to the number
\* of step blocks (STIMULATE, WAIT, BASELINE, SET_CONST_TEMP) in that file.
C1_StepsNumberMatchesBlocks ==
    (inst = "generator" /\ file # <<>>) =>
        file[2] = "stepsNumber=" \o ToString(Cardinality(StepBlocks(file)))

\* C1 witness: an export of a document holding a BASELINE, a WAIT and a
\* STIMULATE block.
C1_Witness ==
    /\ inst = "generator"
    /\ call.op = "export_protocol"
    /\ file[2] = "stepsNumber=3"
    /\ \E i, j, k \in StepBlocks(file) :
          /\ file[i + 2] = "stepTypeText=BASELINE"
          /\ file[j + 2] = "stepTypeText=WAIT"
          /\ file[k + 2] = "stepTypeText=STIMULATE"

\* C2: an export_protocol that directly follows an export_protocol writes the
\* same lines and leaves protocol and n_steps as they were; an export of a
\* document that grew since the last export writes another stepsNumber line.
C2_ExportIdempotent ==
    [][ call'.op = "export_protocol" =>
          /\ call.op = "export_protocol" =>
                (file' = file /\ protocol' = protocol /\ n_steps' = n_steps)
          /\ (file # <<>> /\ Len(protocol) > Len(file)) =>
                file'[2] # file[2] ]_vars

\* C2 witness: a second export in a row of a document with steps.
C2_Witness ==
    /\ inst = "generator"
    /\ call.op = "export_protocol"
    /\ call.after = "export_protocol"
    /\ n_steps >= 1
    /\ file = protocol

\* C3 (as claimed): a set_stim in mode 'fixed_plateau' with T > B, rates > 0,
\* D > 0 transmits 'D0' with D plus the rise duration, whatever preceded it.
C3_Claim ==
    (/\ inst = "tcsii"
     /\ call.op = "set_stim"
     /\ call.dur_mode = "fixed_plateau"
     /\ call.target > dev.baseline
     /\ ValidRates(call)
     /\ call.dur_ms > 0)
    => \E i \in 1..Len(port) :
          port[i] = "D0" \o format_ms(call.dur_ms
                       + DurationMs(call.target - dev.baseline, call.rise_rate), 5)

\* C4: add_stimulation in mode 'fixed_plateau' with T > B, rates > 0, D > 0
\* writes 'duration=' D + (T-B)/Rr to the nearest thousandth, with three
\* decimals, in the five zone blocks of its step; B=30, T=42, Rr=3.0,
\* D=10.0 gives 'duration=14.000'.
C4_GenFixedPlateau ==
    (/\ inst = "generator"
     /\ call.op = "add_stimulation"
     /\ call.duration_mode = "fixed_plateau"
     /\ call.target_temp > call.baseline
     /\ ValidRates(call)
     /\ call.duration_smmm > 0)
    => \A z \in 1..5 :
          /\ ZoneDuration(protocol, call.at, z)
                \in {"duration=" \o Dec3(q) :
                        q \in Nearest(call.duration_smmm * call.rise_rate
                                  + (call.target_temp - call.baseline) * 1000,
                                  call.rise_rate)}
          /\ (/\ call.baseline = 30000
              /\ call.target_temp = 42000
              /\ call.rise_rate = 3000
              /\ call.duration_smmm = 10000)
             => ZoneDuration(protocol, call.at, z) = "duration=14.000"

\* C4 witness: the example call has been made as the second step.
C4_Witness ==
    /\ inst = "generator"
    /\ call.op = "add_stimulation"
    /\ err = "none"
    /\ call.duration_mode = "fixed_plateau"
    /\ call.baseline = 30000
    /\ call.target_temp = 42000
    /\ call.rise_rate = 3000
    /\ call.duration_smmm = 10000
    /\ n_steps = 2
    /\ protocol[call.at + 1] = "[step2]"

\* C5 (as claimed): in mode 'fixed_total' with T > B, rates > 0 and D above
\* the return duration (T-B)/Rt, the duration sent as 'D0' by set_stim (ms)
\* and the 'duration=' written by add_stimulation (s, to the nearest
\* thousandth) are D minus the return duration.
C5_Claim ==
    /\ (/\ inst = "tcsii"
        /\ call.op = "set_stim"
        /\ call.dur_mode = "fixed_total"
        /\ call.target > dev.baseline
        /\ ValidRates(call)
        /\ call.dur_ms * call.return_rate
              > (call.target - dev.baseline) * 1000)
       => /\ err = "none"
          /\ port[4] = "D0" \o format_ms(call.dur_ms
                 - DurationMs(call.target - dev.baseline, call.return_rate), 5)
    /\ (/\ inst = "generator"
        /\ call.op = "add_stimulation"
        /\ call.duration_mode = "fixed_total"
        /\ call.target_temp > call.baseline
        /\ ValidRates(call)
        /\ call.duration_smmm * call.return_rate
              > (call.target_temp - call.baseline) * 1000)
       => \A z \in 1..5 :
             ZoneDuration(protocol, call.at, z)
                \in {"duration=" \o Dec3(q) :
                        q \in Nearest(call.duration_smmm * call.return_rate
                                  - (call.target_temp - call.baseline) * 1000,
                                  call.return_rate)}

\* C6 (as claimed): in mode 'fixed_total' with rates > 0 and D at or below
\* the return duration, the call ends in an error and the non-positive duration is not
\* emitted: no 'D0' is sent, no step is appended.
C6_Claim ==
    /\ (/\ inst = "tcsii"
        /\ call.op = "set_stim"
        /\ call.dur_mode = "fixed_total"
        /\ ValidRates(call)
        /\ call.dur_ms * call.return_rate
              <= (call.target - dev.baseline) * 1000)
       => /\ err # "none"
          /\ \A i \in 1..Len(port) :
                port[i] # "D0" \o format_ms(
                              ExpectedDurationMs(call, dev.baseline), 5)
    /\ (/\ inst = "generator"
        /\ call.op = "add_stimulation"
        /\ call.duration_mode = "fixed_total"
        /\ ValidRates(call)
        /\ call.duration_smmm * call.return_rate
              <= (call.target_temp - call.baseline) * 1000)
       => /\ err # "none"
          /\ Len(protocol) = call.at

\* C7: in mode 'fixed_stim' (rates > 0) the duration sent as 'D0' by set_stim and the
\* 'duration=' written by add_stimulation are the raw duration D.
C7_FixedStim ==
    /\ (/\ inst = "tcsii"
        /\ call.op = "set_stim"
        /\ call.dur_mode = "fixed_stim"
        /\ ValidRates(call))
       => /\ err = "none"
          /\ port[4] = "D0" \o format_ms(call.dur_ms, 5)
          /\ dev.stim_duration_ms = call.dur_ms
    /\ (/\ inst = "generator"
        /\ call.op = "add_stimulation"
        /\ call.duration_mode = "fixed_stim"
        /\ ValidRates(call))
       => \A z \in 1..5 :
             ZoneDuration(protocol, call.at, z) =
                "duration=" \o Dec3(call.duration_smmm)

\* C7 witness: add_stimulation(..., 10.0, duration_mode='fixed_stim') has
\* written 'duration=10.000' in its zone blocks.
C7_Witness ==
    /\ inst = "generator"
    /\ call.op = "add_stimulation"
    /\ err = "none"
    /\ call.duration_mode = "fixed_stim"
    /\ call.duration_smmm = 10000
    /\ \A z \in 1..5 : ZoneDuration(protocol, call.at, z) = "duration=10.000"

\* C8 (as claimed): a duration mode outside the three known ones aborts the
\* call (rates > 0): set_stim raises and sends nothing, add_stimulation raises, appends
\* nothing and leaves n_steps alone.
C8_Claim ==
    /\ (/\ inst = "tcsii"
        /\ call.op = "set_stim"
        /\ ValidRates(call)
        /\ call.dur_mode \notin ValidModes)
       => (err # "none" /\ port = <<>>)
    /\ (/\ inst = "generator"
        /\ call.op = "add_stimulation"
        /\ ValidRates(call)
        /\ call.duration_mode \notin ValidModes)
       => (err # "none" /\ Len(protocol) = call.at
           /\ Cardinality(StepBlocks(protocol)) = n_steps)

\* C9 (as claimed): after a set_stim that returned, the stored and the
\* transmitted effective duration are those of that call's arguments and
\* mode, never the value of an earlier call.
C9_Claim ==
    (/\ inst = "tcsii"
     /\ call.op = "set_stim"
     /\ call.dur_mode \in ValidModes
     /\ err = "none")
    => /\ dev.stim_duration_ms = ExpectedDurationMs(call, dev.baseline)
       /\ port[4] = "D0" \o format_ms(ExpectedDurationMs(call, dev.baseline), 5)

\* C10 (as claimed): after connect and a completed set_stim (beep off),
\* trigger_and_save_temp sends 'L', polls with 'E' until the elapsed time
\* reaches the stored total duration plus the offset, returns normally and
\* stores one sample per poll.
C10_Claim ==
    (/\ inst = "tcsii"
     /\ call.op = "trigger_and_save_temp"
     /\ HasAttr(dev, "surfaces")
     /\ ~dev.beep)
    => /\ err = "none"
       /\ port[1] = "L"
       /\ \A i \in 2..Len(port) : port[i] = "E"
       /\ HasAttr(dev, "read_outs")
       /\ Len(dev.read_outs) = Len(port) - 1
       /\ \A i \in 1..Len(dev.read_outs) : Len(dev.read_outs[i]) = 6

\* the commands that fire a stimulation
TriggerOps == {"trigger", "trigger_and_save_temp", "trigger_and_plot_temp"}

\* C11 (as claimed): trigger() sends 'L'; with beep-on-trigger set it sends
\* the beep 'Z010100' and then 'L', and returns.
C11_Claim ==
    (inst = "tcsii" /\ call.op = "trigger")
    => /\ \E i \in 1..Len(port) : port[i] = "L"
       /\ dev.beep => (err = "none" /\ port = << "Z010100", "L" >>)

\* C12 (as claimed): a trigger call sends 'L' only on a session on which a
\* set_stim has completed.
C12_Claim ==
    (/\ inst = "tcsii"
     /\ call.op \in TriggerOps
     /\ \E i \in 1..Len(port) : port[i] = "L")
    => HasAttr(dev, "surfaces")

Pow10(w) == IF w = 3 THEN 1000 ELSE IF w = 4 THEN 10000 ELSE 100000

DigitChar(d) == << "0", "1", "2", "3", "4", "5", "6", "7", "8", "9" >>[d + 1]

\* the w-digit decimal numeral of v, least significant digit last
RECURSIVE Canon(_, _)
Canon(v, w) ==
    IF w = 0 THEN "" ELSE Canon(v \div 10, w - 1) \o DigitChar(v % 10)

\* C13: __init__ sends, in this order and nothing else, 'N' with the
\* baseline, 'Om' with the maximum, 'F', then 'Ose' if trigger_in else 'Osd',
\* for a baseline inside [30,45] and outside it alike.
C13_ConnectSequence ==
    (inst = "tcsii" /\ call.op = "__init__")
    => /\ Len(port) = 4
       /\ port[1] = "N" \o Canon(call.baseline * 10, 3)
       /\ port[2] = "Om" \o Canon(call.max_temp * 10, 3)
       /\ port[3] = "F"
       /\ port[4] = (IF call.trigger_in THEN "Ose" ELSE "Osd")

\* C13 witness: a connect with a baseline outside the range and trigger_in off.
C13_Witness ==
    /\ inst = "tcsii"
    /\ call.op = "__init__"
    /\ call.baseline = 25
    /\ ~call.trigger_in
    /\ port = << "N250", "Om500", "F", "Osd" >>

\* C14 (as claimed): __init__ and set_baseline send the baseline command
\* whatever the baseline, and surface a warning to the caller exactly when
\* the baseline is outside [30,45].
C14_Claim ==
    (inst = "tcsii" /\ call.op \in {"__init__", "set_baseline"})
    => /\ port[1] = "N" \o format_temp(call.baseline, 3)
       /\ (call.baseline < 30 \/ call.baseline > 45) <=> (warned # <<>>)

\* the five '1'/'0' characters for a requested surface set
SurfaceBits(surfaces) ==
    LET in(i) == surfaces[1] # "list" \/ \E j \in 1..Len(surfaces[2]) :
                                            surfaces[2][j] = i
        ch(i) == IF in(i) THEN "1" ELSE "0"
    IN  ch(1) \o ch(2) \o ch(3) \o ch(4) \o ch(5)

\* C15 (as claimed): set_stim (rates > 0) sends C0, V0, R0, D0 and then 'S' with one
\* character per surface, '1' for the requested ones; all surfaces give
\* '11111' and [2, 4] gives '01010'.
C15_Claim ==
    (inst = "tcsii" /\ call.op = "set_stim" /\ ValidRates(call))
    => /\ Len(port) = 5
       /\ port[1] = "C0" \o format_temp(call.target, 3)
       /\ port[2] = "V0" \o format_temp(call.rise_rate, 4)
       /\ port[3] = "R0" \o format_temp(call.return_rate, 4)
       /\ port[4] = "D0" \o format_ms(dev.stim_duration_ms, 5)
       /\ port[5] = "S" \o SurfaceBits(call.surfaces)
       /\ call.surfaces[1] = "all" => port[5] = "S11111"
       /\ call.surfaces = << "list", << 2, 4 >> >> => port[5] = "S01010"

\* number of trials a generate_from_lists call asks for, and its i-th target
GflTrials(c) == IF c.temp_list.list THEN Len(c.temp_list.v) ELSE c.n_trials

GflTemp(c, i) == IF c.temp_list.list THEN c.temp_list.v[i] ELSE c.temp_list.v

\* a list-valued parameter has one entry per trial
LenOk(p, n) == p.list => Len(p.v) = n

\* C16: generate_from_lists with scalar rates > 0, a zone list that names a
\* zone, and a scalar temp_list and n_trials = N, or a list temp_list of
\* length N (any list-valued parameter having N entries), appends N
\* (WAIT_TRIGGER, STIMULATE) pairs and nothing
\* else, raises n_steps by 2N, and the i-th STIMULATE step carries the i-th
\* (or the scalar) temperature and the supplied rates in its five zones.
C16_GenerateFromLists ==
    (/\ inst = "generator"
     /\ call.op = "generate_from_lists"
     /\ GflTrials(call) >= 1
     /\ ~call.rise_rate.list
     /\ ~call.return_rate.list
     /\ call.rise_rate.v > 0
     /\ call.return_rate.v > 0
     /\ LenOk(call.duration_smmm, GflTrials(call))
     /\ call.zones.v # <<>>
     /\ LenOk(call.zones, GflTrials(call)))
    => LET N == GflTrials(call)
       IN  /\ err = "none"
           /\ n_steps = call.steps + 2 * N
           /\ Len(protocol) = call.at + 76 * N
           /\ \A i \in 1..N :
                LET w  == call.at + 76 * (i - 1)
                    st == w + 7
                IN  /\ protocol[w + 1] =
                          "[step" \o ToString(call.steps + 2 * i - 1) \o "]"
                    /\ protocol[w + 3] = "stepTypeText=WAIT"
                    /\ protocol[w + 5] = "typeWaitText=WAIT_TRIGGER"
                    /\ protocol[st + 1] =
                          "[step" \o ToString(call.steps + 2 * i) \o "]"
                    /\ protocol[st + 3] = "stepTypeText=STIMULATE"
                    /\ \A z \in 1..5 :
                          LET b == st + 9 + 12 * (z - 1)
                          IN  /\ protocol[b + 5] =
                                    "temperature=" \o Dec3(GflTemp(call, i))
                              /\ protocol[b + 6] =
                                    "speed=" \o Dec3(call.rise_rate.v)
                              /\ protocol[b + 7] =
                                    "return=" \o Dec3(call.return_rate.v)

\* C16 witness: a scalar temperature with n_trials = 2 has added two pairs
\* after an earlier step.
C16_Witness ==
    /\ inst = "generator"
    /\ call.op = "generate_from_lists"
    /\ err = "none"
    /\ ~call.temp_list.list
    /\ call.n_trials = 2
    /\ ~call.duration_smmm.list
    /\ call.steps = 1
    /\ n_steps = 5
    /\ protocol[call.at + 76 + 8] = "[step5]"

\* C17 (as claimed): a list-valued parameter whose length differs from the
\* trial count makes generate_from_lists raise and append nothing.
C17_Claim ==
    (/\ inst = "generator"
     /\ call.op = "generate_from_lists"
     /\ \E p \in {call.duration_smmm, call.rise_rate, call.return_rate} :
           p.list /\ Len(p.v) # GflTrials(call))
    => /\ err # "none"
       /\ Len(protocol) = call.at
       /\ n_steps = call.steps

\* C18 (as claimed): format_ms(v, w) and format_temp(t, w) (v = 10 * t)
\* return the w-digit zero-padded numeral of v when 0 <= v < 10^w, and raise
\* ValueOutOfRange when v needs more than w digits.
C18_Claim ==
    (inst = "tcsii" /\ call.op \in {"format_ms", "format_temp"})
    => LET v == IF call.op = "format_ms" THEN call.ms ELSE 10 * call.temp
           w == call.zero_fill_len
       IN  /\ (0 <= v /\ v < Pow10(w))
                => (err = "none" /\ Len(call.ret) = w
                    /\ call.ret = Canon(v, w))
           /\ v >= Pow10(w) => err = "ValueOutOfRange"

\* C19: add_stimulation (rates > 0) appends a STIMULATE header, a stimulation block and
\* the blocks of zones 1..5 in order, whatever zones were requested; zone z
\* has 'enabled=1' iff z was requested, and the five blocks have the same
\* duration, wait, temperature, speed and return lines.
C19_FiveZoneBlocks ==
    (inst = "generator" /\ call.op = "add_stimulation" /\ ValidRates(call))
    => LET a == call.at
           k == ToString(n_steps)
           zb(z) == a + 9 + 12 * (z - 1)
       IN  /\ Len(protocol) = a + 69
           /\ protocol[a + 1] = "[step" \o k \o "]"
           /\ protocol[a + 3] = "stepTypeText=STIMULATE"
           /\ protocol[a + 5] = "[step" \o k \o "_stimulation]"
           /\ \A z \in 1..5 :
                /\ protocol[zb(z) + 1] =
                      "[step" \o k \o "_zone" \o ToString(z) \o "]"
                /\ protocol[zb(z) + 2] =
                      (IF \E j \in 1..Len(call.zones) : call.zones[j] = z
                       THEN "enabled=1" ELSE "enabled=0")
                /\ \A f \in 3..7 : protocol[zb(z) + f] = protocol[zb(1) + f]
           /\ protocol[zb(1) + 4] = "wait=0.000"
           /\ protocol[zb(1) + 5] = "temperature=" \o Dec3(call.target_temp)
           /\ protocol[zb(1) + 6] = "speed=" \o Dec3(call.rise_rate)
           /\ protocol[zb(1) + 7] = "return=" \o Dec3(call.return_rate)

\* C19 witness: zones [2, 4] were requested; zone 1 is written disabled and
\* zone 2 enabled.
C19_Witness ==
    /\ inst = "generator"
    /\ call.op = "add_stimulation"
    /\ err = "none"
    /\ call.zones = << 2, 4 >>
    /\ protocol[call.at + 9 + 2] = "enabled=0"
    /\ protocol[call.at + 21 + 2] = "enabled=1"
    /\ protocol[call.at + 57 + 1] = "[step" \o ToString(n_steps) \o "_zone5]"

\* C20 (as claimed): set_constant_temp writes, for each surface z, four
\* fields keyed by z: temperature, speed, enable flag and hold duration, each
\* with the supplied value.
C20_Claim ==
    (inst = "generator" /\ call.op = "set_constant_temp")
    => \A z \in 1..5 :
          LET b == call.at + 3 + 4 * (z - 1)
              n == ToString(z)
          IN  /\ protocol[b + 1] =
                    "constTemp" \o n \o "=" \o Dec3(call.constant_temp)
              /\ protocol[b + 2] =
                    "constTempSpeed" \o n \o "=" \o Dec3(call.speed)
              /\ protocol[b + 3] =
                    "enableConsTemp" \o n \o "=" \o
                    (IF \E j \in 1..Len(call.zones) : call.zones[j] = z
                     THEN "1" ELSE "0")
              /\ protocol[b + 4] =
                    "ConstTempHold" \o n \o "=" \o Dec3(call.duration_s)

\* C21 (as claimed): a set_stim (rates > 0) that follows a live set_baseline(v) computes
\* its rise and return durations from v, the baseline last transmitted.
C21_Claim ==
    [][ (/\ inst = "tcsii"
         /\ call.op = "set_baseline"
         /\ call'.op = "set_stim"
         /\ ValidRates(call'))
        => /\ dev'.stim_rise_dur_ms =
                 IntMs(call'.target - call.baseline, call'.rise_rate)
           /\ dev'.stim_return_dur_ms =
                 IntMs(call'.target - call.baseline, call'.return_rate) ]_vars

\* the '[stepN]' header lines of a document, in document order
StepHeaders(doc) ==
    LET headers == {"[step" \o ToString(k) \o "]" : k \in 1..Len(doc)}
        isHeader(l) == l \in headers
    IN  SelectSeq(doc, isHeader)

\* C22: the step headers of the document are '[step1]', ..., '[stepN]' in
\* order with N = n_steps; every operation keeps each line already in the
\* document (export rewrites only line 2, the stepsNumber line, and adds
\* nothing; an append leaves line 2 alone) and raises n_steps by the number
\* of step headers it adds.
C22_AppendOnlyNumbered ==
    /\ [](inst = "generator" =>
            LET h == StepHeaders(protocol)
            IN  /\ Len(h) = n_steps
                /\ \A i \in 1..Len(h) : h[i] = "[step" \o ToString(i) \o "]")
    /\ [][ inst = "generator" =>
             /\ Len(protocol') >= Len(protocol)
             /\ \A i \in 1..Len(protocol) :
                   i # 2 => protocol'[i] = protocol[i]
             /\ call'.op = "export_protocol" => Len(protocol') = Len(protocol)
             /\ call'.op # "export_protocol" => protocol'[2] = protocol[2]
             /\ n_steps' - n_steps =
                   Len(StepHeaders(protocol')) - Len(StepHeaders(protocol))
         ]_vars

\* C22 witness: a step appended after an export, as the second step of the
\* document.
C22_Witness ==
    /\ inst = "generator"
    /\ call.op = "set_constant_temp"
    /\ file # <<>>
    /\ Len(protocol) > Len(file)
    /\ n_steps = 2
    /\ StepHeaders(protocol) = << "[step1]", "[step2]" >>

====
